---- MODULE Spec2Model ----
(***************************************************************************)
(* AllHealthy diet tracker: the meal-threshold evaluation and advice       *)
(* dispatch of chatbot.py, the daily meal log of upload.py, and the macro  *)
(* loading and meal logging of main.py and app.py.                         *)
(*                                                                         *)
(* Amounts (kcal, grams) are fixed-point numbers in thousandths: 435000    *)
(* is 435.0 and 4 is 0.004.  Python dicts are functions whose DOMAIN is    *)
(* the set of keys; an optional value is a sequence of length 0 or 1.      *)
(***************************************************************************)
EXTENDS Integers, Sequences, FiniteSets, TLC

VARIABLES
    \* ---- one call of handle_logged_meal / compare_macros (chatbot.py) ----
    meal_type,          \* argument meal_type, as the caller spells it
    meal_macros,        \* argument meal_macros: dict nutrient -> thousandths
    total_daily_macros, \* argument total_daily_macros: dict -> thousandths
    energy_level,       \* None or <<1..5>>
    hunger_level,       \* None or <<1..5>>
    tie_up,             \* which way round() resolves a decimal tie of the double
    gen_ok,             \* whether the generator (load_model, generate) succeeds
    pc,                 \* "start" before the call, "done" after it
    exceeded,           \* the dict compare_macros returned
    requests,           \* the generator requests the call issued, in order
    advice,             \* what the call returned: "None", "advice" or "raised"
    \* ---- the document store (upload.py) ----
    user_doc,           \* users/{USER_ID}: None or <<dict>>
    log,                \* users/{USER_ID}/mealLogs/{today}: dict of fields,
                        \* no field when the document does not exist
    \* ---- the two clients, "main" (main.py) and "app" (app.py) ----
    db,                 \* what init_firebase returns in each client
    chat,               \* each ChatScreen's total_daily_macros, daily_goal_macros
    header,             \* the arguments of each MacrosHeader's last set_data
    last_load,          \* None, or <<what the loader thread that ran last did>>
    uploads,            \* how many upload_meal calls were made
    \* ---- the meal-logging screens ----
    client,             \* the program that runs: "main" or "app"
    logging_in_progress,\* main.py MealLoggingScreen._logging_in_progress
    survey,             \* the open MealSurveyPopup: None or <<its state>>
    tips,               \* the tips threads started and not yet run
    loads_due,          \* the loads scheduled on the clock and not yet run
    chat_history,       \* the chat history: the kinds of its messages, in order
    \* ---- the advice server (serverchatbot.py) ----
    tips_request,       \* the JSON body POSTed to /dynamic_tips
    tips_reply,         \* None, or <<what the server did and answered>>
    \* ---- the store, another date ----
    past_log,           \* users/{USER_ID}/mealLogs/{yesterday}
    \* ---- the threads of main.py ----
    root,               \* the root widget: "loading", "chat", "meal_logging"
    threads,            \* the background threads that are running
    clock,              \* the callbacks given to Clock.schedule_once, in order
    ran,                \* which operations ran, and on which thread
    accepted,           \* per accepted log_meal: the calls it led to
    model               \* chatbot.py's _model_instance, _processor_instance

callVars == <<meal_type, meal_macros, total_daily_macros, energy_level,
              hunger_level, tie_up, gen_ok, pc, exceeded, requests, advice>>
storeVars == <<user_doc, log>>
clientVars == <<db, chat, header, last_load>>

screenVars == <<client, logging_in_progress, survey, tips, loads_due,
                chat_history>>

serverVars == <<tips_request, tips_reply>>

threadVars == <<root, threads, clock, ran, accepted, model>>

vars == <<callVars, storeVars, clientVars, uploads, screenVars, serverVars,
          past_log, threadVars>>

----------------------------------------------------------------------------
(* Python values *)

None == << >>
Some(x) == <<x>>
IsNone(o) == o = << >>
Val(o) == o[1]

EmptyDict == << >>
IsEmpty(d) == DOMAIN d = {}

\* dict.get(key, default)
Get(d, k, default) == IF k \in DOMAIN d THEN d[k] ELSE default

\* str.lower() on the meal-type spellings the callers produce
Lower(s) ==
    CASE s = "Breakfast" -> "breakfast"
      [] s = "Lunch"     -> "lunch"
      [] s = "Dinner"    -> "dinner"
      [] s = "Supper"    -> "supper"
      [] s = "Snacks"    -> "snacks"
      [] s = "Snack"     -> "snack"
      [] s = "Brunch"    -> "brunch"
      [] OTHER           -> s

----------------------------------------------------------------------------
(* chatbot.py: thresholds and compare_macros *)

MEAL_THRESHOLDS ==
    [breakfast |-> [Calories |-> 20, Protein |-> 19, Carbs |-> 26, Fats |-> 21],
     lunch     |-> [Calories |-> 31, Protein |-> 34, Carbs |-> 34, Fats |-> 34],
     dinner    |-> [Calories |-> 29, Protein |-> 30, Carbs |-> 29, Fats |-> 29],
     snack     |-> [Calories |-> 9,  Protein |-> 9,  Carbs |-> 6,  Fats |-> 9],
     supper    |-> [Calories |-> 11, Protein |-> 8,  Carbs |-> 6,  Fats |-> 7]]

\* The whole-unit reference amounts for which FloatBelow is tabulated.
FloatKnown ==
    {0, 5, 10, 15, 20, 30, 40, 50, 60, 65, 80, 90, 100, 120, 150, 200, 250,
     300, 500, 600, 800, 900, 1000, 1100, 1300, 1500, 2000}

\* (threshold_pct / 100) * x is computed in IEEE doubles.  For these
\* <<threshold_pct, x>> the double product is strictly smaller than the double
\* nearest to the exact value pct*x/100 (0.29 * 1500 = 434.99999999999994);
\* for every other pair of a table percentage and an x of FloatKnown it is
\* equal or larger.
FloatBelow ==
    {<<6, 15>>, <<6, 30>>, <<6, 60>>, <<6, 90>>, <<6, 120>>,
     <<9, 5>>, <<9, 10>>, <<9, 15>>, <<9, 20>>, <<9, 30>>, <<9, 40>>,
     <<9, 60>>, <<9, 80>>, <<9, 120>>,
     <<29, 50>>, <<29, 65>>, <<29, 90>>, <<29, 100>>, <<29, 200>>,
     <<29, 800>>, <<29, 1500>>}

\* expected_max = (threshold_pct / 100) * total_daily_macros.get(nutrient, 0):
\* the exact value in thousandths and whether the double lies below it.
ExpectedMax(threshold_pct, goal) ==
    [exact |-> (threshold_pct * goal) \div 100,
     below |-> <<threshold_pct, goal \div 1000>> \in FloatBelow]

\* actual > expected_max, on doubles
GreaterThanMax(actual, emax) ==
    actual > emax.exact \/ (actual = emax.exact /\ emax.below)

\* round(x, 2) of a double x whose decimal value is d thousandths, d >= 0.
\* A decimal tie (d ends in 5) is no tie for the double: it rounds up or
\* down with the sign of its representation error, which tie says.
Round2(d, tie) ==
    LET r == d % 10
    IN  IF r = 5 THEN (IF tie THEN d + 5 ELSE d - 5)
        ELSE IF r < 5 THEN d - r
        ELSE d + (10 - r)

\* compare_macros recording the unrounded difference
compare_macros_unrounded(mt, meal, daily, tie) ==
    LET m == Lower(mt)
    IN  IF m \notin DOMAIN MEAL_THRESHOLDS
        THEN EmptyDict
        ELSE LET th == MEAL_THRESHOLDS[m]
                 emax(n) == ExpectedMax(th[n], Get(daily, n, 0))
                 over == {n \in DOMAIN th :
                             GreaterThanMax(Get(meal, n, 0), emax(n))}
             IN  [n \in over |-> Get(meal, n, 0) - emax(n).exact]

\* compare_macros checking an unknown meal type against the dinner row
compare_macros_fallback_row(mt, meal, daily, tie) ==
    LET m == Lower(mt)
        th == IF m \in DOMAIN MEAL_THRESHOLDS THEN MEAL_THRESHOLDS[m]
              ELSE MEAL_THRESHOLDS["dinner"]
        emax(n) == ExpectedMax(th[n], Get(daily, n, 0))
        over == {n \in DOMAIN th : GreaterThanMax(Get(meal, n, 0), emax(n))}
    IN  [n \in over |-> Round2(Get(meal, n, 0) - emax(n).exact, tie)]

\* compare_macros reading a zero or missing goal as "no limit"
compare_macros_zero_unlimited(mt, meal, daily, tie) ==
    LET m == Lower(mt)
    IN  IF m \notin DOMAIN MEAL_THRESHOLDS
        THEN EmptyDict
        ELSE LET th == MEAL_THRESHOLDS[m]
                 emax(n) == ExpectedMax(th[n], Get(daily, n, 0))
                 over == {n \in DOMAIN th :
                             /\ Get(daily, n, 0) # 0
                             /\ GreaterThanMax(Get(meal, n, 0), emax(n))}
             IN  [n \in over |-> Round2(Get(meal, n, 0) - emax(n).exact, tie)]

compare_macros(mt, meal, daily, tie) ==
    LET m == Lower(mt)
    IN  IF m \notin DOMAIN MEAL_THRESHOLDS
        THEN EmptyDict
        ELSE LET th == MEAL_THRESHOLDS[m]
                 emax(n) == ExpectedMax(th[n], Get(daily, n, 0))
                 over == {n \in DOMAIN th :
                             GreaterThanMax(Get(meal, n, 0), emax(n))}
             IN  [n \in over |-> Round2(Get(meal, n, 0) - emax(n).exact, tie)]

----------------------------------------------------------------------------
(* chatbot.py: the generator requests and handle_logged_meal *)

\* A request to the generator: which function built it and what its user
\* prompt says about the ratings.
Request(kind, levels, low, hungry, considering) ==
    [kind |-> kind,                 \* "reduction" or "wellness"
     levels_stated |-> levels,      \* "my energy level is e/5 and my hunger level is h/5"
     low_energy_stmt |-> low,       \* "I'm feeling low on energy."
     hungry_stmt |-> hungry,        \* "I'm still quite hungry."
     considering_state |-> considering]  \* "considering my current energy and hunger state"

\* What a function that calls the generator hands back: the requests it
\* issued and its outcome ("None", "advice", or "raised" for an exception).
Outcome(reqs, result) == [requests |-> reqs, advice |-> result]

\* load_model() ... model.generate() ... batch_decode(): an advice text, or an
\* exception that the function does not catch
Generate(req, ok) == Outcome(<<req>>, IF ok THEN "advice" ELSE "raised")

get_reduction_tips(exceeded_dict, mt, energy, hunger, ok) ==
    IF IsEmpty(exceeded_dict)
    THEN Outcome(<< >>, "None")
    ELSE LET both == ~IsNone(energy) /\ ~IsNone(hunger)
         IN  Generate(Request("reduction", both, FALSE, FALSE, both), ok)

generate_wellness_tips(mt, energy, hunger, ok) ==
    Generate(Request("wellness", TRUE, Val(energy) <= 2, Val(hunger) >= 4, FALSE),
             ok)

\* handle_logged_meal asking for wellness tips after the reduction tips
handle_logged_meal_both(mt, meal, daily, energy, hunger, tie, ok) ==
    LET ex == compare_macros(mt, meal, daily, tie)
        trips == /\ ~IsNone(energy) /\ ~IsNone(hunger)
                 /\ (Val(energy) <= 2 \/ Val(hunger) >= 4)
        red == IF ~IsEmpty(ex)
               THEN get_reduction_tips(ex, mt, energy, hunger, ok)
               ELSE Outcome(<< >>, "None")
        well == IF trips
                THEN generate_wellness_tips(mt, energy, hunger, ok)
                ELSE Outcome(<< >>, "None")
    IN  [exceeded |-> ex, requests |-> red.requests \o well.requests,
         advice |-> IF red.advice # "None" THEN red.advice ELSE well.advice]

handle_logged_meal(mt, meal, daily, energy, hunger, tie, ok) ==
    LET ex == compare_macros(mt, meal, daily, tie)
        out == IF ~IsEmpty(ex)
               THEN get_reduction_tips(ex, mt, energy, hunger, ok)
               ELSE IF /\ ~IsNone(energy) /\ ~IsNone(hunger)
                       /\ (Val(energy) <= 2 \/ Val(hunger) >= 4)
                    THEN generate_wellness_tips(mt, energy, hunger, ok)
                    ELSE Outcome(<< >>, "None")
    IN  [exceeded |-> ex, requests |-> out.requests, advice |-> out.advice]

----------------------------------------------------------------------------
(* chatbot.py: the model singleton *)

\* _model_instance = None, _processor_instance = None at import; created
\* counts the objects from_pretrained has built, returned collects the
\* pairs load_model has returned
ModelUnloaded ==
    [_model_instance |-> None, _processor_instance |-> None,
     models_created |-> 0, processors_created |-> 0, returned |-> {}]

----------------------------------------------------------------------------
(* upload.py: the meal-log document and upload_meal *)

\* int(value) of a non-negative number: the fraction is dropped
IntOf(v) == (v \div 1000) * 1000

\* {"integerValue": str(int(value))}, read back by _parse_value as int
_num_field(value) == IntOf(value)

\* _make_meal_fields: the stored entry of a meal; the ratings are whole
\* numbers 1..5 and stored as they are
_make_meal_fields(nutrition_data) ==
    LET base == [calories |-> _num_field(Get(nutrition_data, "Calories", 0)),
                 proteins |-> _num_field(Get(nutrition_data, "Protein", 0)),
                 carbs    |-> _num_field(Get(nutrition_data, "Carbs", 0)),
                 fats     |-> _num_field(Get(nutrition_data, "Fats", 0))]
        extra == {"energy", "hunger"} \cap DOMAIN nutrition_data
    IN  [k \in DOMAIN base \cup extra |->
            IF k \in extra THEN nutrition_data[k] ELSE base[k]]

\* The PATCH without an updateMask: the document is replaced by the payload
upload_meal_unmasked(doc, mt, nutrition_data) ==
    [f \in {mt, "last_updated"} |->
        IF f = mt THEN _make_meal_fields(nutrition_data)
        ELSE Get(doc, "last_updated", 0) + 1]

\* The document after the PATCH of upload_meal: its updateMask names the
\* meal field and last_updated, every other field of the document stays.
\* last_updated is a timestamp; here the count of writes that set it.
upload_meal(doc, mt, nutrition_data) ==
    [f \in DOMAIN doc \cup {mt, "last_updated"} |->
        IF f = mt THEN _make_meal_fields(nutrition_data)
        ELSE IF f = "last_updated" THEN Get(doc, "last_updated", 0) + 1
        ELSE doc[f]]

----------------------------------------------------------------------------
(* main.py ChatScreen.load_macros and app.py ChatScreen.load_macros_data *)

GoalKeys == {"calories", "proteins", "carbs", "fats"}
LoggedMealTypes == {"breakfast", "lunch", "dinner", "supper", "snacks"}

\* {'calories': 2000, 'proteins': 150, 'carbs': 250, 'fats': 65}
DefaultGoalDoc ==
    [calories |-> 2000000, proteins |-> 150000, carbs |-> 250000,
     fats |-> 65000]
ZeroConsumed == [calories |-> 0, proteins |-> 0, carbs |-> 0, fats |-> 0]

\* str.capitalize() on the keys of the goal document
Capitalize(k) ==
    CASE k = "calories" -> "Calories"
      [] k = "proteins" -> "Proteins"
      [] k = "carbs"    -> "Carbs"
      [] k = "fats"     -> "Fats"
      [] OTHER          -> k

\* {k.capitalize(): v for k, v in d.items()}
CapitalizeKeys(d) ==
    [K \in {Capitalize(k) : k \in DOMAIN d} |->
        d[CHOOSE k \in DOMAIN d : Capitalize(k) = K]]

\* main.py: int(m.get(lower) or m.get(upper) or 0) of a meal entry
EntryAmountMain(m, lower, upper) ==
    LET a == Get(m, lower, 0)
    IN  IntOf(IF a # 0 THEN a ELSE Get(m, upper, 0))

\* The sum of one amount over the meal types present in the document;
\* entries maps each of them to its amounts under the keys of GoalKeys
SumEntries(entries, k) ==
    LET term(t) == IF t \in DOMAIN entries THEN entries[t][k] ELSE 0
    IN  term("breakfast") + term("lunch") + term("dinner") + term("supper")
          + term("snacks")

\* main.py: the amounts of the meal entries, read under either spelling
EntriesMain(meal_data) ==
    [t \in LoggedMealTypes \cap DOMAIN meal_data |->
        [calories |-> EntryAmountMain(meal_data[t], "calories", "Calories"),
         proteins |-> EntryAmountMain(meal_data[t], "proteins", "Protein"),
         carbs    |-> EntryAmountMain(meal_data[t], "carbs", "Carbs"),
         fats     |-> EntryAmountMain(meal_data[t], "fats", "Fats")]]

\* app.py: meal.get(k, 0) of the meal entries
EntriesApp(meal_data) ==
    [t \in LoggedMealTypes \cap DOMAIN meal_data |->
        [k \in GoalKeys |-> Get(meal_data[t], k, 0)]]

\* The daily goal both loaders take from the user document
DailyGoalOf(udoc) ==
    IF IsNone(udoc) THEN DefaultGoalDoc
    ELSE Get(Val(udoc), "daily_macros_goal", DefaultGoalDoc)

\* consumed always summed from the meal entries, the cache ignored
ConsumedMain_summed(daily_goal, meal_data) ==
    IF IsEmpty(meal_data) THEN ZeroConsumed
    ELSE [k \in GoalKeys |-> SumEntries(EntriesMain(meal_data), k)]

\* main.py load(): consumed, from the fetched documents.  user is None when
\* the fetch failed or the document is missing, meal_data is {} likewise.
ConsumedMain(daily_goal, meal_data) ==
    IF IsEmpty(meal_data) THEN ZeroConsumed
    ELSE IF "macros_left" \in DOMAIN meal_data
    THEN [k \in GoalKeys |->
            Get(daily_goal, k, 0) - Get(meal_data["macros_left"], k, 0)]
    ELSE [k \in GoalKeys |-> SumEntries(EntriesMain(meal_data), k)]

\* app.py load_in_thread(): the sum over the meal entries
SummedApp(meal_data) ==
    [k \in GoalKeys |-> SumEntries(EntriesApp(meal_data), k)]

\* app.py: goal minus x with the per-key defaults 2000/150/250/65
GoalMinusApp(daily_goal, x) ==
    [k \in GoalKeys |-> Get(daily_goal, k, DefaultGoalDoc[k]) - Get(x, k, 0)]

\* app.py load_in_thread(): consumed, for a document that exists
ConsumedApp(daily_goal, meal_data) ==
    IF IsEmpty(meal_data) THEN ZeroConsumed
    ELSE IF "macros_left" \in DOMAIN meal_data
    THEN GoalMinusApp(daily_goal, meal_data["macros_left"])
    ELSE SummedApp(meal_data)

\* app.py: meal_ref.set({'macros_left': macros_left}, merge=True)
SetMacrosLeft(doc, macros_left) ==
    [f \in DOMAIN doc \cup {"macros_left"} |->
        IF f = "macros_left" THEN macros_left ELSE doc[f]]

----------------------------------------------------------------------------
(* The loaders as actions on the store and the chat screens *)

Clients == {"main", "app"}
DbKinds == {"none", "rest", "sdk"}   \* None, True (REST), a Firestore client

NoChat == [total |-> None, goal |-> None, meals |-> {}]

\* What one run of a loader thread did: whether the user document (the
\* goal) and the meal log were fetched, the set_data calls it scheduled,
\* in order, and whether an exception left the thread
LoadRun(c, goal_fetched, log_fetched, fallback, calls, raised) ==
    [client |-> c, goal_fetched |-> goal_fetched, log_fetched |-> log_fetched,
     fallback |-> fallback, set_data |-> calls, raised |-> raised]

\* The arguments of one set_data call
SetDataCall(consumed, goals) == [consumed |-> consumed, goals |-> goals]

\* set_data(consumed, goals), scheduled on the clock
SetData(c, consumed, goals) ==
    header' = [header EXCEPT ![c] = Some(SetDataCall(consumed, goals))]

\* The fallback of both loaders: set_data with zeros and 2000/150/250/65
Fallback(c) ==
    /\ SetData(c, ZeroConsumed, DefaultGoalDoc)
    /\ last_load' = Some(LoadRun(c, FALSE, FALSE, TRUE,
                          <<SetDataCall(ZeroConsumed, DefaultGoalDoc)>>, FALSE))
    /\ UNCHANGED <<chat, log>>

\* main.py: the meal types whose entry has calories
MealsLogged(meal_data) ==
    {t \in LoggedMealTypes \cap DOMAIN meal_data :
        Get(meal_data[t], "calories", 0) # 0
            \/ Get(meal_data[t], "Calories", 0) # 0}

\* load_macros without its except clause: a failed fetch ends the thread
load_macros_uncaught ==
    /\ \E user_ok, meal_ok \in BOOLEAN :
          IF db["main"] = "none"
          THEN Fallback("main")
          ELSE IF db["main"] = "sdk" /\ ~(user_ok /\ meal_ok)
          THEN /\ last_load' = Some(LoadRun("main", FALSE, FALSE, FALSE,
                                            << >>, TRUE))
               /\ UNCHANGED <<chat, log, header>>
          ELSE LET user == IF user_ok THEN user_doc ELSE None
                   meal_data == IF meal_ok THEN log ELSE EmptyDict
                   daily_goal == DailyGoalOf(user)
                   consumed == ConsumedMain(daily_goal, meal_data)
               IN  /\ chat' = [chat EXCEPT !["main"] =
                          [total |-> Some(CapitalizeKeys(consumed)),
                           goal  |-> Some(CapitalizeKeys(daily_goal)),
                           meals |-> MealsLogged(meal_data)]]
                   /\ SetData("main", consumed, daily_goal)
                   /\ last_load' = Some(LoadRun("main", user_ok, meal_ok, FALSE,
                          <<SetDataCall(consumed, daily_goal)>>, FALSE))
                   /\ UNCHANGED log
    /\ UNCHANGED <<callVars, user_doc, db, uploads>>

\* main.py ChatScreen.load_macros, the body of its thread.  In REST mode a
\* failed fetch yields None (user) or {} (meal log); with a Firestore client
\* a failed fetch raises.
load_macros ==
    /\ \E user_ok, meal_ok \in BOOLEAN :
          IF db["main"] = "none" \/ (db["main"] = "sdk" /\ ~(user_ok /\ meal_ok))
          THEN Fallback("main")
          ELSE LET user == IF user_ok THEN user_doc ELSE None
                   meal_data == IF meal_ok THEN log ELSE EmptyDict
                   daily_goal == DailyGoalOf(user)
                   consumed == ConsumedMain(daily_goal, meal_data)
               IN  /\ chat' = [chat EXCEPT !["main"] =
                          [total |-> Some(CapitalizeKeys(consumed)),
                           goal  |-> Some(CapitalizeKeys(daily_goal)),
                           meals |-> MealsLogged(meal_data)]]
                   /\ SetData("main", consumed, daily_goal)
                   /\ last_load' = Some(LoadRun("main", user_ok, meal_ok, FALSE,
                          <<SetDataCall(consumed, daily_goal)>>, FALSE))
                   /\ UNCHANGED log
    /\ UNCHANGED <<callVars, user_doc, db, uploads>>

\* app.py ChatScreen.load_macros_data, the body of its thread.  It uses the
\* Firestore client only: on the REST flag db.collection raises, as does a
\* failed fetch.  The write of macros_left is best effort.
load_macros_data ==
    /\ \E fetch_ok, write_ok \in BOOLEAN :
          IF db["app"] # "sdk" \/ ~fetch_ok
          THEN Fallback("app")
          ELSE LET daily_goal == DailyGoalOf(user_doc)
                   consumed == ConsumedApp(daily_goal, log)
               IN  /\ log' = IF /\ ~IsEmpty(log)
                                /\ "macros_left" \notin DOMAIN log
                                /\ write_ok
                             THEN SetMacrosLeft(log, GoalMinusApp(daily_goal, consumed))
                             ELSE log
                   /\ chat' = [chat EXCEPT !["app"].total =
                          Some([Calories |-> consumed["calories"],
                                Protein  |-> consumed["proteins"],
                                Carbs    |-> consumed["carbs"],
                                Fats     |-> consumed["fats"]])]
                   /\ SetData("app", consumed, daily_goal)
                   /\ last_load' = Some(LoadRun("app", TRUE, TRUE, FALSE,
                          <<SetDataCall(consumed, daily_goal)>>, FALSE))
    /\ UNCHANGED <<callVars, user_doc, db, uploads>>

----------------------------------------------------------------------------
(* SpecLog: uploads and loads on one user's log of one date *)

\* How many meals are uploaded in one behaviour
MaxUploads == 2

\* The user documents: none, one without a goal, one with a goal
UserDocs ==
    {None,
     Some([name |-> "user"]),
     Some([daily_macros_goal |->
              [calories |-> 1500000, proteins |-> 100000, carbs |-> 200000,
               fats |-> 0]])}

\* The meals the screens upload, in whole units as int(float(text)) gives
\* them, and one estimate with a fraction
ScreenMeals ==
    {[Calories |-> 500000, Protein |-> 40000, Carbs |-> 20000, Fats |-> 5000],
     [Calories |-> 300000, Protein |-> 10000, Carbs |-> 20000, Fats |-> 0]}
EstimatedMeals ==
    {[Calories |-> 300400, Protein |-> 10000, Carbs |-> 20000, Fats |-> 0]}

UploadTypes == {"breakfast", "dinner", "snacks"}

CallIdle ==
    /\ meal_type = "" /\ meal_macros = EmptyDict
    /\ total_daily_macros = EmptyDict
    /\ energy_level = None /\ hunger_level = None
    /\ tie_up = FALSE /\ gen_ok = TRUE
    /\ pc = "start" /\ exceeded = EmptyDict /\ requests = << >>
    /\ advice = "None"

\* No request to the advice server
ServerIdle == tips_request = EmptyDict /\ tips_reply = None

\* What the user has had accepted so far: the chat messages sent, the
\* analytics popups opened, the logging screens built, the loads started
\* and, per accepted log_meal, the calls it has led to
NothingAccepted ==
    [send_chat |-> 0, show_analytics_popup |-> 0, MealLoggingScreen |-> 0,
     load_macros |-> 0, log_meal |-> << >>]

\* No thread of main.py runs and nothing is scheduled
ThreadsIdle ==
    /\ root = "none" /\ threads = {} /\ clock = << >>
    /\ ran = {} /\ accepted = NothingAccepted
    /\ model = ModelUnloaded

\* No screen: the functions are called directly
ScreenIdle ==
    /\ client = "none" /\ logging_in_progress = FALSE
    /\ survey = None /\ tips = << >> /\ loads_due = 0
    /\ chat_history = << >>
    /\ ThreadsIdle

InitLog ==
    /\ CallIdle
    /\ ScreenIdle
    /\ ServerIdle
    /\ user_doc \in UserDocs
    /\ log = EmptyDict
    /\ past_log = EmptyDict
    /\ db \in [Clients -> DbKinds]
    /\ chat = [c \in Clients |-> NoChat]
    /\ header = [c \in Clients |-> None]
    /\ last_load = None
    /\ uploads = 0

\* The dates a caller passes as date_str
Dates == {"today", "yesterday"}

\* users/{USER_ID}/mealLogs: the documents by date
MealLogs == [d \in Dates |-> IF d = "today" THEN log ELSE past_log]

\* The collection after the PATCH of the document _get_doc_url(user_id,
\* date_str) names
Patched(date_str, mt, data) ==
    [MealLogs EXCEPT ![date_str] = upload_meal(@, mt, data)]

\* upload_meal(USER_ID, mt, data, date_str): True and the document patched,
\* or False and nothing written
UploadMeal ==
    /\ uploads < MaxUploads
    /\ \E mt \in UploadTypes, data \in ScreenMeals \cup EstimatedMeals,
          date_str \in Dates, ok \in BOOLEAN :
          LET after == IF ok THEN Patched(date_str, mt, data) ELSE MealLogs
          IN  /\ log' = after["today"]
              /\ past_log' = after["yesterday"]
              /\ uploads' = IF ok THEN uploads + 1 ELSE uploads
    /\ UNCHANGED <<callVars, user_doc, clientVars, screenVars, serverVars,
                   threadVars>>

LoadMacros == load_macros /\ UNCHANGED <<screenVars, serverVars, past_log, threadVars>>

LoadMacrosData == load_macros_data /\ UNCHANGED <<screenVars, serverVars, past_log, threadVars>>

NextLog == UploadMeal \/ LoadMacros \/ LoadMacrosData

SpecLog == InitLog /\ [][NextLog]_vars

\* C1: whenever the day's log holds a macros_left cache, daily_goal -
\* macros_left equals the elementwise sum of the meal-type entries in the
\* log, so the totals read from the cache equal the totals recomputed.
C1_CacheEqualsEntries ==
    "macros_left" \in DOMAIN log =>
        GoalMinusApp(DailyGoalOf(user_doc), log["macros_left"]) = SummedApp(log)

\* C18: whatever fails during a load (no database, a failed fetch, an
\* exception), load_macros and load_macros_data let no exception out of
\* the thread and schedule set_data exactly once, with the goals
\* 2000/150/250/65 whenever the daily goal could not be fetched.
C18_LoadEndsWithOneSetData ==
    ~IsNone(last_load) =>
        LET r == Val(last_load)
        IN  /\ ~r.raised
            /\ Len(r.set_data) = 1
            /\ header[r.client] = Some(r.set_data[1])
            /\ ~r.goal_fetched => r.set_data[1].goals = DefaultGoalDoc

\* A load with a Firestore client whose fetch raised, and its fallback
C18_Witness ==
    /\ ~IsNone(last_load)
    /\ db[Val(last_load).client] = "sdk"
    /\ Val(last_load).fallback
    /\ ~IsNone(user_doc) /\ "daily_macros_goal" \in DOMAIN Val(user_doc)
    /\ Val(header[Val(last_load).client]).goals = DefaultGoalDoc

\* C20: a load that finds a macros_left entry in the day's log computes
\* consumed[n] = daily_goal[n] - macros_left[n] for the four nutrients and
\* writes nothing to the log.
C20_CachedLoadReadsOnly ==
    [][((LoadMacros \/ LoadMacrosData)
          /\ "macros_left" \in DOMAIN log
          /\ ~IsNone(last_load') /\ Val(last_load').log_fetched)
        => /\ log' = log
           /\ LET call == Val(last_load').set_data[1]
              IN  call.consumed =
                      [k \in GoalKeys |->
                          call.goals[k] - log["macros_left"][k]]]_vars

\* main.py has loaded from a cache that no longer matches the entries
C20_Witness ==
    /\ ~IsNone(last_load)
    /\ Val(last_load).client = "main" /\ Val(last_load).log_fetched
    /\ "macros_left" \in DOMAIN log
    /\ LET call == Val(last_load).set_data[1]
       IN  /\ call.consumed =
                 [k \in GoalKeys |-> call.goals[k] - log["macros_left"][k]]
           /\ call.consumed # SummedApp(log)

\* C21: a load that fetches a day's log with meal entries and no
\* macros_left entry returns consumed as the elementwise sum of the entries
\* and writes macros_left = daily_goal - consumed back to the log, so that
\* the next load takes the cached path.
C21_UncachedLoadWritesCache ==
    [][((LoadMacros \/ LoadMacrosData)
          /\ ~IsEmpty(log) /\ "macros_left" \notin DOMAIN log
          /\ ~IsNone(last_load') /\ Val(last_load').log_fetched)
        => LET call == Val(last_load').set_data[1]
           IN  /\ call.consumed = SummedApp(log)
               /\ log' = SetMacrosLeft(log,
                             [k \in GoalKeys |->
                                 call.goals[k] - call.consumed[k]])]_vars

\* C25: upload_meal(user, meal_type, data, date) changes only the field
\* named meal_type and last_updated of the user's log document of that
\* date; every other field of that document, the other meal entries among
\* them, and the document of every other date stay as they were.
C25_UploadChangesOnlyItsField ==
    [][UploadMeal =>
        \E date_str \in Dates, mt \in UploadTypes :
           /\ \A d \in Dates \ {date_str} : MealLogs'[d] = MealLogs[d]
           /\ LET before == MealLogs[date_str]
                  after == MealLogs'[date_str]
                  others(doc) == DOMAIN doc \ {mt, "last_updated"}
              IN  /\ others(after) = others(before)
                  /\ \A f \in others(before) : after[f] = before[f]]_vars

\* A second meal uploaded to a document that held a meal and a cache
C25_Witness ==
    /\ uploads = 2
    /\ {"breakfast", "dinner", "macros_left"} \subseteq DOMAIN log
    /\ log["last_updated"] = 2

----------------------------------------------------------------------------
(* SpecMeal: handle_logged_meal applied to one logged meal *)

\* The dict with the keys whose optional amount is given
DictOf(opt) == [k \in {n \in DOMAIN opt : ~IsNone(opt[n])} |-> Val(opt[k])]

Ratings == {None} \cup {Some(r) : r \in 1..5}

\* Meal types as callers spell them: the five of the logging screens, the
\* table's own "snack", a capitalised spelling and an unknown type.
MealTypeInputs ==
    {"breakfast", "lunch", "dinner", "Dinner", "supper", "snacks", "snack",
     "brunch"}

\* Reference amounts: the default goal, a goal with a zero entry, a goal
\* with missing entries.
DefaultGoal ==
    [Calories |-> 2000000, Protein |-> 150000, Carbs |-> 250000, Fats |-> 65000]
GoalInputs ==
    {DefaultGoal,
     [Calories |-> 1500000, Protein |-> 100000, Carbs |-> 200000, Fats |-> 0],
     [Calories |-> 2000000]}

\* Amounts at, just above and far from the allowed maxima of these goals;
\* None is a key the meal dict lacks.
CaloriesInputs == {None, Some(0), Some(400000), Some(435000), Some(435004),
                   Some(500000)}
ProteinInputs  == {None, Some(0), Some(4), Some(30000), Some(30005), Some(45000)}
CarbsInputs    == {None, Some(58000), Some(58015)}
FatsInputs     == {None, Some(5000), Some(18850)}

FineMeals ==
    {DictOf([Calories |-> c, Protein |-> p, Carbs |-> b, Fats |-> f]) :
        c \in CaloriesInputs, p \in ProteinInputs, b \in CarbsInputs,
        f \in FatsInputs}

\* The meals of the survey cases: over the breakfast allowance, within it,
\* and a meal with no amounts.
SurveyMeals ==
    {[Calories |-> 500000, Protein |-> 10000, Carbs |-> 20000, Fats |-> 5000],
     [Calories |-> 300000, Protein |-> 10000, Carbs |-> 20000, Fats |-> 5000],
     EmptyDict}

\* No store and no client: the call stands alone
StoreIdle ==
    /\ user_doc = None /\ log = EmptyDict /\ past_log = EmptyDict
    /\ db = [c \in Clients |-> "none"]
    /\ chat = [c \in Clients |-> NoChat]
    /\ header = [c \in Clients |-> None]
    /\ last_load = None
    /\ uploads = 0
    /\ ScreenIdle

InitMeal ==
    /\ ServerIdle
    /\ meal_type \in MealTypeInputs
    /\ \/ /\ meal_macros \in FineMeals
          /\ total_daily_macros \in GoalInputs
          /\ energy_level = None /\ hunger_level = None
          /\ tie_up \in BOOLEAN
          /\ gen_ok = TRUE
       \/ /\ meal_macros \in SurveyMeals
          /\ total_daily_macros = DefaultGoal
          /\ energy_level \in Ratings /\ hunger_level \in Ratings
          /\ tie_up = FALSE
          /\ gen_ok \in BOOLEAN
    /\ pc = "start"
    /\ exceeded = EmptyDict
    /\ requests = << >>
    /\ advice = "None"
    /\ StoreIdle

HandleLoggedMeal ==
    /\ pc = "start"
    /\ LET r == handle_logged_meal(meal_type, meal_macros, total_daily_macros,
                                   energy_level, hunger_level, tie_up, gen_ok)
       IN  /\ exceeded' = r.exceeded
           /\ requests' = r.requests
           /\ advice' = r.advice
    /\ pc' = "done"
    /\ UNCHANGED <<meal_type, meal_macros, total_daily_macros, energy_level,
                   hunger_level, tie_up, gen_ok>>
    /\ UNCHANGED <<storeVars, clientVars, uploads, screenVars, serverVars,
                   past_log, threadVars>>

NextMeal == HandleLoggedMeal

SpecMeal == InitMeal /\ [][NextMeal]_vars

----------------------------------------------------------------------------
(* Properties of compare_macros and handle_logged_meal, under SpecMeal *)

Nutrients == {"Calories", "Protein", "Carbs", "Fats"}
MealTypeEnum == {"breakfast", "lunch", "dinner", "supper", "snacks"}

HasEntry(mt) == Lower(mt) \in DOMAIN MEAL_THRESHOLDS

\* (threshold[m][n] / 100) * daily_goal[n] as a number, in thousandths
AllowedMax(mt, n, daily) ==
    (MEAL_THRESHOLDS[Lower(mt)][n] * Get(daily, n, 0)) \div 100

\* actual - allowed_max of nutrient n in the call at hand
Excess(n) ==
    Get(meal_macros, n, 0) - AllowedMax(meal_type, n, total_daily_macros)

\* v is d rounded to 2 decimals: a multiple of 0.01 at most 0.005 from d
IsRounded2(v, d) == v % 10 = 0 /\ v - d <= 5 /\ d - v <= 5

HighHunger == ~IsNone(hunger_level) /\ Val(hunger_level) > 4
LowEnergy == ~IsNone(energy_level) /\ Val(energy_level) < 2

\* C2: for a meal type with a threshold entry, a nutrient whose amount is at
\* most (threshold/100) * daily_goal, equality included, is absent from the
\* result of compare_macros.
C2_WithinAllowanceAbsent ==
    (pc = "done" /\ HasEntry(meal_type)) =>
        \A n \in Nutrients : Excess(n) <= 0 => n \notin DOMAIN exceeded

\* C3: every value compare_macros records equals the excess rounded to 2
\* decimals and is strictly greater than 0.
C3_RecordedRoundedPositive ==
    pc = "done" =>
        \A n \in DOMAIN exceeded :
            IsRounded2(exceeded[n], Excess(n)) /\ exceeded[n] > 0

\* C3 as amended: every value compare_macros records equals the excess
\* rounded to 2 decimals and is at least 0; it is strictly greater than 0
\* whenever the excess is more than 0.005.
C3_RecordedRoundedNonNegative ==
    pc = "done" =>
        \A n \in DOMAIN exceeded :
            /\ IsRounded2(exceeded[n], Excess(n))
            /\ exceeded[n] >= 0
            /\ (Excess(n) > 5 => exceeded[n] > 0)

\* A recorded excess that has more than two decimals, next to one that
\* rounds to 0.
C3_Witness ==
    /\ pc = "done"
    /\ \E n \in DOMAIN exceeded : Excess(n) % 10 # 0 /\ exceeded[n] > 0
    /\ \E n \in DOMAIN exceeded : exceeded[n] = 0

\* C4: handle_logged_meal returns None without a generator request if and
\* only if no macro is exceeded, hunger is not high (given and > 4) and
\* energy is not low (given and < 2), each flag judged by its own rating.
C4_NoAdviceIffNothingTrips ==
    pc = "done" =>
        ((requests = << >> /\ advice = "None")
            <=> (IsEmpty(exceeded) /\ ~HighHunger /\ ~LowEnergy))

\* C5: hunger counts as high only above 4 and energy as low only below 2:
\* with no exceeded macro a request is issued only if one of them trips, and
\* a request states hunger or low energy only if that flag trips.
C5_StrictRatingThresholds ==
    (pc = "done" /\ IsEmpty(exceeded)) =>
        /\ requests # << >> => (HighHunger \/ LowEnergy)
        /\ \A i \in DOMAIN requests :
              /\ requests[i].hungry_stmt => HighHunger
              /\ requests[i].low_energy_stmt => LowEnergy

\* C6: each of breakfast, lunch, dinner, supper, snacks has a threshold
\* entry, and a meal of such a type whose calories exceed its percentage of
\* the daily goal is reported.
C6_EveryEnumTypeChecked ==
    (pc = "done" /\ Lower(meal_type) \in MealTypeEnum) =>
        /\ HasEntry(meal_type)
        /\ Excess("Calories") > 0 => "Calories" \in DOMAIN exceeded

\* C9: for a meal type outside the threshold table compare_macros returns
\* an empty result whatever the amounts, nothing but the generator raises,
\* and handle_logged_meal goes on to the hunger/energy evaluation: no
\* reduction request, a wellness request for hunger 5 or energy 1 when both
\* ratings are given, and None when a rating is missing.
C9_UnknownTypeSkipped ==
    (pc = "done" /\ ~HasEntry(meal_type)) =>
        /\ IsEmpty(exceeded)
        /\ advice = "raised" => ~gen_ok
        /\ \A i \in DOMAIN requests : requests[i].kind = "wellness"
        /\ (/\ ~IsNone(energy_level) /\ ~IsNone(hunger_level)
            /\ (Val(hunger_level) = 5 \/ Val(energy_level) = 1))
              => Len(requests) = 1
        /\ (IsNone(energy_level) \/ IsNone(hunger_level))
              => (requests = << >> /\ advice = "None")

\* A brunch over every dinner allowance, rated hungry: nothing exceeded and
\* the wellness request issued.
C9_Witness ==
    /\ pc = "done"
    /\ meal_type = "brunch"
    /\ Get(meal_macros, "Calories", 0) = 500000
    /\ hunger_level = Some(5)
    /\ IsEmpty(exceeded)
    /\ Len(requests) = 1

\* C10: when the goal of a nutrient is 0 or missing, any positive amount of
\* it is recorded as exceeded by the full amount; a nutrient missing from
\* the meal is never recorded.
C10_ZeroGoalFullAmount ==
    (pc = "done" /\ HasEntry(meal_type)) =>
        \A n \in Nutrients :
            /\ (Get(total_daily_macros, n, 0) = 0 /\ Get(meal_macros, n, 0) > 0)
                  => (n \in DOMAIN exceeded /\ exceeded[n] = meal_macros[n])
            /\ n \notin DOMAIN meal_macros => n \notin DOMAIN exceeded

\* C10 as amended: ... is recorded as exceeded by the full amount rounded to
\* 2 decimals (0.0 for an amount below 0.005); a nutrient missing from the
\* meal is never recorded.
C10_ZeroGoalRoundedAmount ==
    (pc = "done" /\ HasEntry(meal_type)) =>
        \A n \in Nutrients :
            /\ (Get(total_daily_macros, n, 0) = 0 /\ Get(meal_macros, n, 0) > 0)
                  => (/\ n \in DOMAIN exceeded
                      /\ IsRounded2(exceeded[n], meal_macros[n]))
            /\ n \notin DOMAIN meal_macros => n \notin DOMAIN exceeded

\* A meal with fats against a goal of 0 fats and no protein entry against a
\* goal that allows none.
C10_Witness ==
    /\ pc = "done"
    /\ HasEntry(meal_type)
    /\ "Fats" \in DOMAIN total_daily_macros /\ total_daily_macros["Fats"] = 0
    /\ "Fats" \in DOMAIN exceeded /\ exceeded["Fats"] = 5000
    /\ "Protein" \notin DOMAIN meal_macros

\* The condition on the ratings as handle_logged_meal evaluates it
RatingsTrip ==
    /\ ~IsNone(energy_level) /\ ~IsNone(hunger_level)
    /\ (Val(energy_level) <= 2 \/ Val(hunger_level) >= 4)

\* C12: the request built by get_reduction_tips mentions the hunger level
\* only when hunger is high and the energy level only when energy is low,
\* and asks to consider the hunger/energy state only when one of them trips.
C12_ReductionMentionsOnlyTripped ==
    pc = "done" =>
        \A i \in DOMAIN requests :
            requests[i].kind = "reduction" =>
                /\ requests[i].levels_stated => (HighHunger /\ LowEnergy)
                /\ requests[i].considering_state => (HighHunger \/ LowEnergy)

\* C13: handle_logged_meal issues at most one generator call for a meal:
\* the reduction request if and only if some macro is exceeded, the
\* wellness request only when none is exceeded and the rating condition
\* trips; never both.
C13_AtMostOneRequest ==
    pc = "done" =>
        /\ Len(requests) <= 1
        /\ (\E i \in DOMAIN requests : requests[i].kind = "reduction")
              <=> ~IsEmpty(exceeded)
        /\ (\E i \in DOMAIN requests : requests[i].kind = "wellness")
              => (IsEmpty(exceeded) /\ RatingsTrip)

\* A meal over its allowance logged with low energy and high hunger: the
\* reduction request alone.
C13_Witness ==
    /\ pc = "done"
    /\ ~IsEmpty(exceeded)
    /\ RatingsTrip
    /\ Len(requests) = 1
    /\ requests[1].kind = "reduction"

\* C15: when the generator fails during get_reduction_tips or
\* generate_wellness_tips, handle_logged_meal hands its caller a "no advice
\* available" outcome and does not raise.
C15_GeneratorFailureNotRaised ==
    (pc = "done" /\ ~gen_ok) => advice # "raised"

\* The percentages of nutrient n summed over the meal types of the table
ThresholdSum(n) ==
    MEAL_THRESHOLDS["breakfast"][n] + MEAL_THRESHOLDS["lunch"][n]
        + MEAL_THRESHOLDS["dinner"][n] + MEAL_THRESHOLDS["snack"][n]
        + MEAL_THRESHOLDS["supper"][n]

\* The largest amounts of nutrient n that one meal of every type of the
\* table can have with none of them flagged, summed over the day
UnflaggedDayTotal(n, daily) ==
    AllowedMax("breakfast", n, daily) + AllowedMax("lunch", n, daily)
        + AllowedMax("dinner", n, daily) + AllowedMax("snack", n, daily)
        + AllowedMax("supper", n, daily)

\* C27: for each nutrient the threshold percentages of all meal types sum
\* to at most 100, so a day with one meal of every type, none of them
\* flagged for the nutrient, totals at most the daily goal of the nutrient.
C27_ThresholdsSumWithinGoal ==
    pc = "done" =>
        \A n \in Nutrients :
            /\ ThresholdSum(n) <= 100
            /\ UnflaggedDayTotal(n, total_daily_macros)
                   <= Get(total_daily_macros, n, 0)

----------------------------------------------------------------------------
(* Spec: one client, its chat screen and its meal-logging screen.  The   *)
(* handlers run on the interface thread, the loaders and the tips jobs   *)
(* on their own threads, in any order.                                    *)

\* The meal types and ratings chosen on the screens
ScreenMealTypes == {"breakfast", "dinner"}
ScreenRatings == {3, 5}

\* The amounts typed into the form of the logging screen
FormMeals ==
    {[Calories |-> 500000, Protein |-> 40000, Carbs |-> 20000, Fats |-> 5000]}

\* A tips thread that has been started and has not yet run
\* after_fallback records whether the load that ran last before the thread
\* was started had ended in its fallback
TipsJob(mt, nutrition, energy, hunger, after_fallback) ==
    [mt |-> mt, nutrition |-> nutrition, energy |-> energy, hunger |-> hunger,
     after_fallback |-> after_fallback]

\* Whether the loader thread that ran last ended in its fallback
LastLoadFellBack == ~IsNone(last_load) /\ Val(last_load).fallback

\* add_message(msg) and remove_last_message() on a chat history
add_message(history, msg) == Append(history, msg)
remove_last_message(history) ==
    IF history = << >> THEN history ELSE SubSeq(history, 1, Len(history) - 1)

\* An open MealSurveyPopup; its callback closes over the meal
Popup(mt, nutrition, energy, hunger) ==
    [mt |-> mt, nutrition |-> nutrition, energy |-> energy, hunger |-> hunger]

\* nutrition["energy"], nutrition["hunger"] = energy, hunger
WithSurvey(nutrition, energy, hunger) ==
    [k \in DOMAIN nutrition \cup {"energy", "hunger"} |->
        IF k = "energy" THEN energy
        ELSE IF k = "hunger" THEN hunger ELSE nutrition[k]]

\* The app is built: the chat screen's constructor has scheduled one load
Init ==
    /\ CallIdle
    /\ client \in Clients
    /\ \E kind \in DbKinds : db = [c \in Clients |-> kind]
    /\ user_doc \in UserDocs
    /\ log = EmptyDict
    /\ chat = [c \in Clients |-> NoChat]
    /\ header = [c \in Clients |-> None]
    /\ last_load = None
    /\ uploads = 0
    /\ logging_in_progress = FALSE
    /\ survey = None
    /\ tips = << >>
    /\ loads_due = 1
    /\ chat_history = <<"welcome">>
    /\ ServerIdle
    /\ past_log = EmptyDict
    /\ ThreadsIdle

\* main.py: a scheduled load_macros runs
ScheduledLoadMacros ==
    /\ client = "main" /\ loads_due > 0
    /\ load_macros
    /\ loads_due' = loads_due - 1
    /\ UNCHANGED <<client, logging_in_progress, survey, tips, chat_history>>
    /\ UNCHANGED <<serverVars, past_log, threadVars>>

\* app.py: a scheduled load_macros_data runs
ScheduledLoadMacrosData ==
    /\ client = "app" /\ loads_due > 0
    /\ load_macros_data
    /\ loads_due' = loads_due - 1
    /\ UNCHANGED <<client, logging_in_progress, survey, tips, chat_history>>
    /\ UNCHANGED <<serverVars, past_log, threadVars>>

\* main.py MealLoggingScreen.log_meal with valid fields: the flag is set and
\* the survey opens with nothing selected
LogMeal ==
    /\ client = "main" /\ survey = None /\ uploads < MaxUploads
    /\ ~logging_in_progress
    /\ \E mt \in ScreenMealTypes, nutrition \in FormMeals :
          survey' = Some(Popup(mt, nutrition, None, None))
    /\ logging_in_progress' = TRUE
    /\ UNCHANGED <<callVars, storeVars, clientVars, uploads, client, tips,
                   loads_due, chat_history>>
    /\ UNCHANGED <<serverVars, past_log, threadVars>>

\* main.py select_energy / app.py energy_slider
SelectEnergy ==
    /\ survey # None
    /\ \E v \in ScreenRatings :
          survey' = Some([Val(survey) EXCEPT !.energy = Some(v)])
    /\ UNCHANGED <<callVars, storeVars, clientVars, uploads, client,
                   logging_in_progress, tips, loads_due, chat_history>>
    /\ UNCHANGED <<serverVars, past_log, threadVars>>

\* main.py select_hunger / app.py hunger_slider
SelectHunger ==
    /\ survey # None
    /\ \E v \in ScreenRatings :
          survey' = Some([Val(survey) EXCEPT !.hunger = Some(v)])
    /\ UNCHANGED <<callVars, storeVars, clientVars, uploads, client,
                   logging_in_progress, tips, loads_due, chat_history>>
    /\ UNCHANGED <<serverVars, past_log, threadVars>>

\* main.py MealSurveyPopup.submit with both levels selected, and on_survey:
\* the upload, then _handle_successful_log or the reset of the flag
SubmitSurveyMain ==
    /\ client = "main" /\ survey # None
    /\ LET p == Val(survey)
       IN  /\ ~IsNone(p.energy) /\ ~IsNone(p.hunger)
           /\ LET energy == Val(p.energy)
                  hunger == Val(p.hunger)
                  nutrition == WithSurvey(p.nutrition, energy, hunger)
              IN  \E success \in BOOLEAN :
                     IF success
                     THEN /\ log' = upload_meal(log, p.mt, nutrition)
                          /\ uploads' = uploads + 1
                          /\ loads_due' = loads_due + 1
                          /\ tips' = Append(tips,
                                 TipsJob(p.mt, nutrition, energy, hunger,
                                         LastLoadFellBack))
                          /\ chat_history' = add_message(
                                 add_message(chat_history, "logged"),
                                 "Generating tips...")
                          /\ UNCHANGED logging_in_progress
                     ELSE /\ logging_in_progress' = FALSE
                          /\ UNCHANGED <<log, uploads, loads_due, tips,
                                         chat_history>>
    /\ survey' = None
    /\ UNCHANGED <<callVars, user_doc, clientVars, client>>
    /\ UNCHANGED <<serverVars, past_log, threadVars>>

\* The body of a tips thread once the reference has been read
CallHandleLoggedMeal(job, reference) ==
    \E ok \in BOOLEAN :
       LET r == handle_logged_meal(job.mt, job.nutrition, reference,
                                   Some(job.energy), Some(job.hunger),
                                   FALSE, ok)
       IN  /\ meal_type' = job.mt
           /\ meal_macros' = job.nutrition
           /\ total_daily_macros' = reference
           /\ energy_level' = Some(job.energy)
           /\ hunger_level' = Some(job.hunger)
           /\ tie_up' = FALSE
           /\ gen_ok' = ok
           /\ pc' = "done"
           /\ exceeded' = r.exceeded
           /\ requests' = r.requests
           /\ advice' = r.advice

\* main.py tips(): handle_logged_meal with chat_screen.daily_goal_macros.
\* Reading the attribute before any load has set it raises; the exception
\* is caught.  The flag is reset either way.
TipsMain ==
    /\ client = "main" /\ tips # << >>
    /\ IF IsNone(chat["main"].goal)
       THEN /\ UNCHANGED callVars
            /\ chat_history' = remove_last_message(chat_history)
       ELSE /\ CallHandleLoggedMeal(Head(tips), Val(chat["main"].goal))
            /\ chat_history' =
                  IF advice' = "raised"
                  THEN remove_last_message(chat_history)
                  ELSE add_message(remove_last_message(chat_history),
                                   IF advice' = "advice" THEN "advice"
                                   ELSE "All nutrients within range.")
    /\ tips' = Tail(tips)
    /\ logging_in_progress' = FALSE
    /\ UNCHANGED <<storeVars, clientVars, uploads, client, survey, loads_due>>
    /\ UNCHANGED <<serverVars, past_log, threadVars>>

\* The survey opened whether or not the upload succeeded
LoggedApp_survey_always(mt, nutrition_data) ==
    \E success \in BOOLEAN :
       /\ survey' = Some(Popup(mt, nutrition_data, Some(3), Some(3)))
       /\ IF success
          THEN /\ log' = upload_meal(log, mt, nutrition_data)
               /\ uploads' = uploads + 1
               /\ loads_due' = loads_due + 1
               /\ chat_history' = add_message(chat_history, "logged")
          ELSE UNCHANGED <<log, uploads, loads_due, chat_history>>

\* app.py upload, refresh and survey of submit_manual and analyze_image
LoggedApp(mt, nutrition_data) ==
    \E success \in BOOLEAN :
       IF success
       THEN /\ log' = upload_meal(log, mt, nutrition_data)
            /\ uploads' = uploads + 1
            /\ loads_due' = loads_due + 1
            /\ survey' = Some(Popup(mt, nutrition_data, Some(3), Some(3)))
            /\ chat_history' = add_message(chat_history, "logged")
       ELSE UNCHANGED <<log, uploads, loads_due, survey, chat_history>>

\* app.py MealLoggingScreen.submit_manual with valid fields
SubmitManual ==
    /\ client = "app" /\ survey = None /\ uploads < MaxUploads
    /\ \E mt \in ScreenMealTypes, nutrition_data \in FormMeals :
          LoggedApp(Lower(mt), nutrition_data)
    /\ UNCHANGED <<callVars, user_doc, clientVars, client,
                   logging_in_progress, tips>>
    /\ UNCHANGED <<serverVars, past_log, threadVars>>

\* app.py MealLoggingScreen.analyze_image, its thread: the estimate may
\* fail (None), otherwise the meal is uploaded as in submit_manual
AnalyzeImage ==
    /\ client = "app" /\ survey = None /\ uploads < MaxUploads
    /\ \E mt \in ScreenMealTypes,
          estimate \in {None} \cup {Some(m) : m \in EstimatedMeals} :
          IF IsNone(estimate)
          THEN UNCHANGED <<log, uploads, loads_due, survey, chat_history>>
          ELSE LoggedApp(Lower(mt), Val(estimate))
    /\ UNCHANGED <<callVars, user_doc, clientVars, client,
                   logging_in_progress, tips>>
    /\ UNCHANGED <<serverVars, past_log, threadVars>>

\* app.py MealSurveyPopup.submit and on_survey_submitted: the tips thread
\* is started
SubmitSurveyApp ==
    /\ client = "app" /\ survey # None
    /\ LET p == Val(survey)
       IN  tips' = Append(tips, TipsJob(p.mt, p.nutrition, Val(p.energy),
                                        Val(p.hunger), LastLoadFellBack))
    /\ survey' = None
    /\ UNCHANGED <<callVars, storeVars, clientVars, uploads, client,
                   logging_in_progress, loads_due, chat_history>>
    /\ UNCHANGED <<serverVars, past_log, threadVars>>

\* app.py generate_tips(): handle_logged_meal with
\* chat_screen.total_daily_macros.  Reading the attribute before a load has
\* set it raises; the exception is caught.
TipsApp ==
    /\ client = "app" /\ tips # << >>
    /\ IF IsNone(chat["app"].total)
       THEN UNCHANGED <<callVars, chat_history>>
       ELSE /\ CallHandleLoggedMeal(Head(tips), Val(chat["app"].total))
            /\ chat_history' =
                  IF advice' = "raised" THEN chat_history
                  ELSE add_message(chat_history,
                                   IF advice' = "advice" THEN "advice"
                                   ELSE "All nutrients within range.")
    /\ tips' = Tail(tips)
    /\ UNCHANGED <<storeVars, clientVars, uploads, client,
                   logging_in_progress, survey, loads_due>>
    /\ UNCHANGED <<serverVars, past_log, threadVars>>

Next ==
    \/ ScheduledLoadMacros
    \/ ScheduledLoadMacrosData
    \/ LogMeal
    \/ SelectEnergy
    \/ SelectHunger
    \/ SubmitSurveyMain
    \/ TipsMain
    \/ SubmitManual
    \/ AnalyzeImage
    \/ SubmitSurveyApp
    \/ TipsApp

Spec == Init /\ [][Next]_vars

\* The amounts of a reference dict under the keys of the stored goal,
\* whichever spelling the caller used for them
ReferenceAmounts(ref) ==
    [k \in GoalKeys |->
        IF Capitalize(k) \in DOMAIN ref THEN ref[Capitalize(k)]
        ELSE IF k = "proteins" THEN Get(ref, "Protein", 0) ELSE 0]

\* C7: when a meal is logged through main.py after load_macros succeeded,
\* the meal's Protein is compared against the threshold percentage of the
\* goal persisted under proteins: a meal whose protein is positive and at
\* or below that allowance is not reported as exceeding protein.
C7_ProteinAgainstStoredGoal ==
    (client = "main" /\ pc = "done" /\ HasEntry(meal_type)) =>
        LET protein == Get(meal_macros, "Protein", 0)
            goal == ReferenceAmounts(total_daily_macros)["proteins"]
        IN  (protein > 0
               /\ protein * 100 <= MEAL_THRESHOLDS[Lower(meal_type)]["Protein"] * goal)
                => "Protein" \notin DOMAIN exceeded

\* C8: in every meal-logging path of app.py and main.py, the reference
\* amounts passed to handle_logged_meal are the user's daily goal (the
\* stored one, or the default when none was fetched), never the totals
\* consumed so far.
C8_ReferenceIsDailyGoal ==
    (client \in Clients /\ pc = "done") =>
        ReferenceAmounts(total_daily_macros)
            \in {DailyGoalOf(user_doc), DefaultGoalDoc}

\* C16: whenever the advice generation for a logged meal fails, the chat
\* shows a message telling that advice could not be generated: the tips
\* thread leaves neither "All nutrients within range." nor nothing (the
\* placeholder removed, no message added) in the chat.
C16_FailureShownInChat ==
    [][((TipsMain \/ TipsApp) /\ advice' = "raised")
        => /\ chat_history' # << >>
           /\ chat_history'[Len(chat_history')]
                 \notin {"welcome", "logged", "Generating tips...", "advice",
                         "All nutrients within range."}]_vars

\* C19: a meal logged through main.py after a load_macros that ended in
\* its fallback is evaluated by handle_logged_meal against the goal
\* 2000/150/250/65, and when the generator works the chat receives the
\* advice or the within-range message for it.
C19_EvaluatedAfterFallback ==
    [][(TipsMain /\ Head(tips).after_fallback)
        => /\ pc' = "done"
           /\ meal_macros' = Head(tips).nutrition
           /\ ReferenceAmounts(total_daily_macros') = DefaultGoalDoc
           /\ gen_ok' =>
                 chat_history'[Len(chat_history')]
                     \in {"advice", "All nutrients within range."}]_vars

\* C30: handle_logged_meal is invoked for a meal only after upload_meal
\* returned True for that meal: a tips thread is started, and a survey of
\* app.py opened, only for a meal whose entry is in the log, and a step in
\* which upload_meal returns False starts no tips thread, opens no survey
\* and adds no message to the chat.
C30_AdviceOnlyAfterUpload ==
    [][/\ ((SubmitSurveyMain \/ SubmitManual \/ AnalyzeImage)
              /\ uploads' = uploads)
          => /\ tips' = tips /\ chat_history' = chat_history
             /\ survey' = None /\ log' = log
       /\ Len(tips') > Len(tips)
          => LET job == tips'[Len(tips')]
             IN  /\ job.mt \in DOMAIN log'
                 /\ log'[job.mt] = _make_meal_fields(job.nutrition)
       /\ ((TipsMain \/ TipsApp) /\ pc' = "done")
          => /\ meal_type' \in DOMAIN log
             /\ uploads > 0]_vars

\* Advice was requested for a meal that is in the log
C30_Witness ==
    /\ pc = "done" /\ requests # << >>
    /\ uploads > 0 /\ meal_type \in DOMAIN log

----------------------------------------------------------------------------
(* SpecTips: serverchatbot.py, one POST to /dynamic_tips *)

\* An item of the issue list or of the advice list: the category it names
\* and what its text quotes from the meal context
Item(category, amounts, level) ==
    [category |-> category, amounts |-> amounts, level |-> level]

\* "{n} by {v:.0f} kcal" for Calories, "{n} by {v:.1f}g" otherwise
Units(exceeded_macros) ==
    [n \in DOMAIN exceeded_macros |-> IF n = "Calories" THEN "kcal" ELSE "g"]

\* The list issues of get_dynamic_tips_remote
issues(meal_context) ==
    LET exceeded_macros == Get(meal_context, "exceeded_macros", EmptyDict)
        high_hunger == Get(meal_context, "high_hunger", FALSE)
        low_energy == Get(meal_context, "low_energy", FALSE)
        hunger_lvl == IF "hunger_level" \in DOMAIN meal_context
                      THEN Some(meal_context["hunger_level"]) ELSE None
        energy_lvl == IF "energy_level" \in DOMAIN meal_context
                      THEN Some(meal_context["energy_level"]) ELSE None
    IN  (IF ~IsEmpty(exceeded_macros)
         THEN <<Item("macros", Units(exceeded_macros), None)>> ELSE << >>)
        \o (IF high_hunger
            THEN <<Item("hunger", EmptyDict, hunger_lvl)>> ELSE << >>)
        \o (IF low_energy
            THEN <<Item("energy", EmptyDict, energy_lvl)>> ELSE << >>)

\* advice_needed listing the energy advice before the hunger advice
advice_needed_energy_first(meal_context) ==
    LET exceeded_macros == Get(meal_context, "exceeded_macros", EmptyDict)
        high_hunger == Get(meal_context, "high_hunger", FALSE)
        low_energy == Get(meal_context, "low_energy", FALSE)
    IN  (IF ~IsEmpty(exceeded_macros)
         THEN <<Item("macros", EmptyDict, None)>> ELSE << >>)
        \o (IF low_energy THEN <<Item("energy", EmptyDict, None)>> ELSE << >>)
        \o (IF high_hunger THEN <<Item("hunger", EmptyDict, None)>> ELSE << >>)

\* The list advice_needed of get_dynamic_tips_remote
advice_needed(meal_context) ==
    LET exceeded_macros == Get(meal_context, "exceeded_macros", EmptyDict)
        high_hunger == Get(meal_context, "high_hunger", FALSE)
        low_energy == Get(meal_context, "low_energy", FALSE)
    IN  (IF ~IsEmpty(exceeded_macros)
         THEN <<Item("macros", EmptyDict, None)>> ELSE << >>)
        \o (IF high_hunger THEN <<Item("hunger", EmptyDict, None)>> ELSE << >>)
        \o (IF low_energy THEN <<Item("energy", EmptyDict, None)>> ELSE << >>)

\* _generate_text: the decoded text, or "Error: ..." when anything raised
_generate_text(messages, ok) ==
    IF ok THEN "generated text" ELSE "Error: exception"

\* get_dynamic_tips_remote: the prompt it builds from the two lists and the
\* string _generate_text returns for it
get_dynamic_tips_remote(meal_context, ok) ==
    LET messages == [meal_type |-> Get(meal_context, "meal_type", "meal"),
                     issues |-> issues(meal_context),
                     advice_needed |-> advice_needed(meal_context)]
    IN  [generations |-> <<messages>>,
         result |-> _generate_text(messages, ok)]

\* api_dynamic_tips: jsonify({"advice": result}), status 200
api_dynamic_tips(data, ok) ==
    LET meal_context == Get(data, "meal_context", EmptyDict)
        r == get_dynamic_tips_remote(meal_context, ok)
    IN  [generations |-> r.generations,
         generated_ok |-> ok,
         status |-> 200,
         advice |-> Some(r.result)]

\* The fields a client may put into the meal context, each present or not
ExceededInputs ==
    {None, Some(EmptyDict), Some([Calories |-> 100000]),
     Some([Protein |-> 10500, Fats |-> 2000])}
FlagInputs == {None, Some(FALSE), Some(TRUE)}

InitTips ==
    /\ CallIdle
    /\ StoreIdle
    /\ tips_reply = None
    /\ \E with_context \in BOOLEAN, e \in ExceededInputs,
          h \in FlagInputs, l \in FlagInputs,
          hl \in {None, Some(5)}, el \in {None, Some(1)},
          mt \in {None, Some("dinner")} :
          tips_request =
              IF with_context
              THEN [meal_context |->
                       DictOf([exceeded_macros |-> e, high_hunger |-> h,
                               low_energy |-> l, hunger_level |-> hl,
                               energy_level |-> el, meal_type |-> mt])]
              ELSE EmptyDict

\* The server handles the request
ApiDynamicTips ==
    /\ tips_reply = None
    /\ \E ok \in BOOLEAN :
          tips_reply' = Some(api_dynamic_tips(tips_request, ok))
    /\ UNCHANGED <<callVars, storeVars, clientVars, uploads, screenVars,
                   tips_request, past_log, threadVars>>

NextTips == ApiDynamicTips

SpecTips == InitTips /\ [][NextTips]_vars

\* The meal context of the request at hand and its three conditions
MealContext == Get(tips_request, "meal_context", EmptyDict)
MacrosExceeded == ~IsEmpty(Get(MealContext, "exceeded_macros", EmptyDict))
HungerFlag == Get(MealContext, "high_hunger", FALSE)
EnergyFlag == Get(MealContext, "low_energy", FALSE)

\* The categories a list names, in its order
Categories(items) == [i \in DOMAIN items |-> items[i].category]

\* macros, hunger, energy: those whose condition holds, in this order
TrippedCategories ==
    (IF MacrosExceeded THEN <<"macros">> ELSE << >>)
    \o (IF HungerFlag THEN <<"hunger">> ELSE << >>)
    \o (IF EnergyFlag THEN <<"energy">> ELSE << >>)

\* C11: the issue list and the advice list of get_dynamic_tips_remote hold
\* the macro item iff exceeded_macros is non-empty, the hunger item iff
\* high_hunger is set and the energy item iff low_energy is set, in the
\* order macros, hunger, energy; both lists name the same categories.
C11_ListsFollowFlags ==
    ~IsNone(tips_reply) =>
        \A i \in DOMAIN Val(tips_reply).generations :
            LET m == Val(tips_reply).generations[i]
            IN  /\ Categories(m.issues) = TrippedCategories
                /\ Categories(m.advice_needed) = TrippedCategories

\* A request with high hunger and low energy but no exceeded macro, and
\* one with all three
C11_Witness ==
    /\ ~IsNone(tips_reply)
    /\ ~MacrosExceeded /\ HungerFlag /\ EnergyFlag
    /\ Len(Val(tips_reply).generations) = 1
    /\ Categories(Val(tips_reply).generations[1].issues) = <<"hunger", "energy">>

\* C14: for a meal context with no exceeded macro, no high hunger and no
\* low energy (an empty or missing context included) the /dynamic_tips
\* path issues no generation request and returns no advice.
C14_NothingTrippedNoGeneration ==
    (~IsNone(tips_reply) /\ ~MacrosExceeded /\ ~HungerFlag /\ ~EnergyFlag) =>
        /\ Val(tips_reply).generations = << >>
        /\ IsNone(Val(tips_reply).advice)

\* C17: when generation fails inside _generate_text, the /dynamic_tips
\* response carries no advice text: no 200 response with a string in its
\* advice field.
C17_FailureCarriesNoAdvice ==
    (~IsNone(tips_reply) /\ ~Val(tips_reply).generated_ok) =>
        (Val(tips_reply).status # 200 \/ IsNone(Val(tips_reply).advice))

----------------------------------------------------------------------------
(* SpecThreads: main.py at the grain of its threads.  The handlers and the *)
(* callbacks of the clock run on the interface thread, one at a time; the  *)
(* background threads take their steps in any order.                       *)

\* How many chat messages are sent and how many log_meal calls are accepted
MaxChats == 2
MaxLogs == 2

\* A background thread: the function it runs, where it stands in it, the
\* number of the request it serves and, for a tips thread, the logged meal
Thread(kind, at, req, job) == [kind |-> kind, pc |-> at, req |-> req, job |-> job]

\* Clock.schedule_once(fn, timeout); delayed when timeout > 0
Scheduled(fn, arg, delayed) == [fn |-> fn, arg |-> arg, delayed |-> delayed]

\* A chat bubble: its text and the request it was added for
Bubble(text, req) == <<text, req>>

\* The form of the logging screen: a meal over its breakfast allowance and
\* one within it
ThreadMeals ==
    FormMeals \cup
    {[Calories |-> 300000, Protein |-> 0, Carbs |-> 20000, Fats |-> 5000]}

\* The level pressed in the survey
ThreadRatings == {3}

\* ChatScreen.current_meal_type, the type the logging screen starts with
SelectedMealTypes == {"breakfast"}

\* An open MealSurveyPopup of main.py: the meal its callback closes over,
\* the two values, _submitted, and the number of the log_meal that opened it
MealSurveyPopup(mt, nutrition, index) ==
    [mt |-> mt, nutrition |-> nutrition, energy |-> None, hunger |-> None,
     _submitted |-> FALSE, index |-> index]

\* The variables the threads of main.py never change
restVars == <<callVars, user_doc, db, past_log, client, tips, loads_due,
              serverVars>>

\* thread t moves to at / ends
Advance(t, at) == threads' = (threads \ {t}) \cup {[t EXCEPT !.pc = at]}
Finish(t) == threads' = threads \ {t}

\* ops ran, on the interface thread in a handler ("ui"), on the interface
\* thread as a callback of the clock ("clock"), or on a background thread
Ran(ops, how) == ran' = ran \cup {<<op, how>> : op \in ops}

\* The app after build(): the loading screen, init_app on the clock
InitThreads ==
    /\ CallIdle /\ ServerIdle
    /\ client = "main"
    /\ db = [c \in Clients |-> "rest"]
    /\ user_doc = Some([name |-> "user"])
    /\ log = EmptyDict /\ past_log = EmptyDict
    /\ chat = [c \in Clients |-> NoChat]
    /\ header = [c \in Clients |-> None]
    /\ last_load = None
    /\ uploads = 0
    /\ logging_in_progress = FALSE /\ survey = None
    /\ tips = << >> /\ loads_due = 0
    /\ chat_history = << >>
    /\ root = "loading"
    /\ threads = {}
    /\ clock = <<Scheduled("init_app", 0, TRUE)>>
    /\ ran = {}
    /\ accepted = NothingAccepted
    /\ model = ModelUnloaded

\* chatbot.py load_model, one step of thread t in it: the test of the two
\* globals, the two from_pretrained calls (either may raise), the return
load_model(t) ==
    /\ t.pc \in {"load_model", "from_pretrained_processor",
                 "from_pretrained_model", "return_model"}
    /\ CASE t.pc = "load_model" ->
              /\ Advance(t, IF IsNone(model._model_instance)
                                \/ IsNone(model._processor_instance)
                            THEN "from_pretrained_processor"
                            ELSE "return_model")
              /\ UNCHANGED model
         [] t.pc = "from_pretrained_processor" ->
              \E ok \in BOOLEAN :
                 IF ok
                 THEN /\ model' = [model EXCEPT
                            !.processors_created = @ + 1,
                            !._processor_instance =
                                Some(model.processors_created + 1)]
                      /\ Advance(t, "from_pretrained_model")
                 ELSE /\ Advance(t, "raised")
                      /\ UNCHANGED model
         [] t.pc = "from_pretrained_model" ->
              \E ok \in BOOLEAN :
                 IF ok
                 THEN /\ model' = [model EXCEPT
                            !.models_created = @ + 1,
                            !._model_instance = Some(model.models_created + 1)]
                      /\ Advance(t, "return_model")
                 ELSE /\ Advance(t, "raised")
                      /\ UNCHANGED model
         [] t.pc = "return_model" ->
              /\ model' = [model EXCEPT !.returned = @ \cup
                              {<<model._model_instance,
                                 model._processor_instance>>}]
              /\ Advance(t, "loaded")
    /\ UNCHANGED <<restVars, log, clientVars, uploads, logging_in_progress,
                   survey, chat_history, root, clock, ran, accepted>>

\* A thread stands in load_model
LoadModel == \E t \in threads : load_model(t)

\* init with switch_to_main scheduled before load_model is called
init_switch_first(t) ==
    /\ t.kind = "init"
    /\ \/ /\ t.pc = "init_firebase"
          /\ Advance(t, "load_model")
          /\ clock' = Append(clock, Scheduled("switch_to_main", 0, TRUE))
       \/ /\ t.pc \in {"loaded", "raised"}
          /\ Finish(t)
          /\ UNCHANGED clock
    /\ Ran({"update_status"}, "clock")
    /\ UNCHANGED <<restVars, log, clientVars, uploads, logging_in_progress,
                   survey, chat_history, root, accepted, model>>

\* DietChatApp.init_app.init, the steps around its call of load_model:
\* switch_to_main is scheduled once load_model has returned, and not at all
\* when it raised
init(t) ==
    /\ t.kind = "init"
    /\ \/ /\ t.pc = "init_firebase"
          /\ Advance(t, "load_model")
          /\ UNCHANGED clock
       \/ /\ t.pc = "loaded"
          /\ Finish(t)
          /\ clock' = Append(clock, Scheduled("switch_to_main", 0, TRUE))
       \/ /\ t.pc = "raised"
          /\ Finish(t)
          /\ UNCHANGED clock
    /\ Ran({"update_status"}, "clock")
    /\ UNCHANGED <<restVars, log, clientVars, uploads, logging_in_progress,
                   survey, chat_history, root, accepted, model>>

InitThread == \E t \in threads : init(t)

\* ChatScreen.load_macros.load, the thread a scheduled load_macros starts
LoadThread ==
    \E t \in threads :
       /\ t.kind = "load"
       /\ load_macros
       /\ Finish(t)
       /\ Ran({"get_user_doc", "get_meal_doc"}, "thread")
       /\ UNCHANGED <<past_log, screenVars, serverVars, root, clock, accepted,
                      model>>

\* ChatScreen.send_chat with a message typed
send_chat ==
    /\ root = "chat" /\ accepted.send_chat < MaxChats
    /\ LET req == accepted.send_chat + 1
       IN  /\ chat_history' = add_message(
                  add_message(chat_history, Bubble("user", req)),
                  Bubble("Thinking...", req))
           /\ threads' = threads \cup {Thread("chat", "load_model", req, None)}
           /\ accepted' = [accepted EXCEPT !.send_chat = req]
    /\ Ran({"add_message"}, "ui")
    /\ UNCHANGED <<restVars, log, clientVars, uploads, logging_in_progress,
                   survey, root, clock, model>>

\* ChatScreen._process_chat once get_chat_response has the model, or
\* load_model raised: the generation, and the two callbacks either way
_process_chat(t) ==
    /\ t.kind = "chat" /\ t.pc \in {"loaded", "raised"}
    /\ \E ok \in BOOLEAN :
          clock' = clock \o
              <<Scheduled("remove_last_message", t.req, FALSE),
                Scheduled("add_message",
                          Bubble(IF ok /\ t.pc = "loaded" THEN "response"
                                 ELSE "Sorry, I couldn't process that.",
                                 t.req),
                          FALSE)>>
    /\ Finish(t)
    /\ Ran({"get_chat_response"}, "thread")
    /\ UNCHANGED <<restVars, log, clientVars, uploads, logging_in_progress,
                   survey, chat_history, root, accepted, model>>

ProcessChat == \E t \in threads : _process_chat(t)

\* MacrosHeader.show_analytics_popup: the loading popup and the fetch thread
show_analytics_popup ==
    /\ root = "chat" /\ accepted.show_analytics_popup = 0
    /\ threads' = threads \cup {Thread("fetch", "fetch", 1, None)}
    /\ accepted' = [accepted EXCEPT !.show_analytics_popup = 1]
    /\ Ran({"loading.open"}, "ui")
    /\ UNCHANGED <<restVars, log, clientVars, uploads, logging_in_progress,
                   survey, chat_history, root, clock, model>>

\* show_analytics_popup.fetch: load_weekly_analytics, loading.dismiss() and
\* the scheduling of AnalyticsPopup(...).open()
fetch ==
    \E t \in threads :
       /\ t.kind = "fetch"
       /\ Finish(t)
       /\ clock' = Append(clock, Scheduled("AnalyticsPopup.open", 0, FALSE))
       /\ Ran({"load_weekly_analytics", "loading.dismiss"}, "thread")
       /\ UNCHANGED <<restVars, log, clientVars, uploads,
                      logging_in_progress, survey, chat_history, root,
                      accepted, model>>

\* NavigationPopup.go_to_meal_logging: a MealLoggingScreen is built, with
\* _logging_in_progress = False, and becomes the root widget
go_to_meal_logging ==
    /\ root = "chat" /\ accepted.MealLoggingScreen = 0
    /\ root' = "meal_logging"
    /\ logging_in_progress' = FALSE
    /\ accepted' = [accepted EXCEPT !.MealLoggingScreen = 1]
    /\ UNCHANGED <<restVars, log, clientVars, uploads, survey, chat_history,
                   threads, clock, ran, model>>

\* MealLoggingScreen.log_meal: nothing while a log is in progress or a field
\* is invalid, else the flag is set and the survey opens
log_meal ==
    /\ root = "meal_logging"
    /\ \E valid \in BOOLEAN :
          IF logging_in_progress \/ ~valid
          THEN UNCHANGED <<logging_in_progress, survey, accepted>>
          ELSE /\ survey = None
               /\ Len(accepted.log_meal) < MaxLogs
               /\ logging_in_progress' = TRUE
               /\ accepted' = [accepted EXCEPT !.log_meal =
                      Append(@, [upload_meal |-> 0, handle_logged_meal |-> 0])]
               /\ \E mt \in SelectedMealTypes, nutrition \in ThreadMeals :
                     survey' = Some(MealSurveyPopup(mt, nutrition,
                                        Len(accepted.log_meal) + 1))
    /\ UNCHANGED <<restVars, log, clientVars, uploads, chat_history, root,
                   threads, clock, ran, model>>

\* What on_survey does with the result of upload_meal: on success
\* _handle_successful_log (the messages, the refresh, the tips thread, the
\* way back), on failure the reset of the flag and the failure popup
on_survey(p, nutrition, success) ==
    IF success
    THEN /\ log' = upload_meal(log, p.mt, nutrition)
         /\ uploads' = uploads + 1
         /\ clock' = clock \o
               <<Scheduled("add_message", Bubble("logged", p.index), FALSE),
                 Scheduled("load_macros", 0, TRUE),
                 Scheduled("add_message",
                           Bubble("Generating tips...", p.index), FALSE),
                 Scheduled("go_back", 0, TRUE)>>
         /\ threads' = threads \cup
               {Thread("tips", "sleep", p.index,
                       Some(TipsJob(p.mt, nutrition, Val(p.energy),
                                    Val(p.hunger), LastLoadFellBack)))}
         /\ UNCHANGED logging_in_progress
    ELSE /\ logging_in_progress' = FALSE
         /\ clock' = Append(clock, Scheduled("show_popup", 0, FALSE))
         /\ UNCHANGED <<log, uploads, threads>>

\* submit without the _submitted guard
submit_unguarded ==
    /\ survey # None
    /\ LET p == Val(survey)
       IN  IF IsNone(p.energy) \/ IsNone(p.hunger)
           THEN UNCHANGED <<log, uploads, logging_in_progress, survey,
                            threads, clock, ran, accepted>>
           ELSE /\ survey' = Some([p EXCEPT !._submitted = TRUE])
                /\ accepted' = [accepted EXCEPT
                       !.log_meal[p.index].upload_meal = @ + 1]
                /\ Ran({"upload_meal"}, "ui")
                /\ \E success \in BOOLEAN :
                      on_survey(p, WithSurvey(p.nutrition, Val(p.energy),
                                              Val(p.hunger)), success)
    /\ UNCHANGED <<restVars, clientVars, chat_history, root, model>>

\* MealSurveyPopup.submit: nothing when already submitted or a level is
\* missing; else _submitted is set, the callback on_survey runs, with its
\* upload_meal, and the popup is dismissed
submit ==
    /\ survey # None
    /\ LET p == Val(survey)
       IN  IF p._submitted \/ IsNone(p.energy) \/ IsNone(p.hunger)
           THEN UNCHANGED <<log, uploads, logging_in_progress, survey,
                            threads, clock, ran, accepted>>
           ELSE /\ survey' = Some([p EXCEPT !._submitted = TRUE])
                /\ accepted' = [accepted EXCEPT
                       !.log_meal[p.index].upload_meal = @ + 1]
                /\ Ran({"upload_meal"}, "ui")
                /\ \E success \in BOOLEAN :
                      on_survey(p, WithSurvey(p.nutrition, Val(p.energy),
                                              Val(p.hunger)), success)
    /\ UNCHANGED <<restVars, clientVars, chat_history, root, model>>

\* MealSurveyPopup.select_energy / select_hunger
select_energy ==
    /\ survey # None
    /\ \E value \in ThreadRatings :
          survey' = Some([Val(survey) EXCEPT !.energy = Some(value)])
    /\ UNCHANGED <<restVars, log, clientVars, uploads, logging_in_progress,
                   chat_history, root, threads, clock, ran, accepted, model>>

select_hunger ==
    /\ survey # None
    /\ \E value \in ThreadRatings :
          survey' = Some([Val(survey) EXCEPT !.hunger = Some(value)])
    /\ UNCHANGED <<restVars, log, clientVars, uploads, logging_in_progress,
                   chat_history, root, threads, clock, ran, accepted, model>>

\* The dismissed popup has left the window
PopupClosed ==
    /\ survey # None /\ Val(survey)._submitted
    /\ survey' = None
    /\ UNCHANGED <<restVars, log, clientVars, uploads, logging_in_progress,
                   chat_history, root, threads, clock, ran, accepted, model>>

\* The callbacks a tips thread schedules when it ends
TipsDone(t, msgs) ==
    /\ clock' = clock
          \o <<Scheduled("remove_last_message", t.req, FALSE)>>
          \o [i \in 1..Len(msgs) |-> Scheduled("add_message", msgs[i], FALSE)]
          \o <<Scheduled("setattr _logging_in_progress", t.req, FALSE)>>
    /\ Finish(t)

\* tips without its finally clause: the flag is reset after advice only
tips_no_finally(t) ==
    /\ t.kind = "tips"
    /\ LET job == Val(t.job)
           goal == chat["main"].goal
       IN  \/ /\ t.pc = "sleep" /\ IsNone(goal)
              /\ clock' = Append(clock,
                     Scheduled("remove_last_message", t.req, FALSE))
              /\ Finish(t)
              /\ UNCHANGED <<accepted, ran>>
           \/ /\ t.pc = "sleep" /\ ~IsNone(goal)
              /\ accepted' = [accepted EXCEPT
                     !.log_meal[t.req].handle_logged_meal = @ + 1]
              /\ Ran({"handle_logged_meal"}, "thread")
              /\ IF handle_logged_meal(job.mt, job.nutrition, Val(goal),
                                       Some(job.energy), Some(job.hunger),
                                       FALSE, TRUE).requests = << >>
                 THEN TipsDone(t, <<Bubble("All nutrients within range.",
                                           t.req)>>)
                 ELSE /\ Advance(t, "load_model")
                      /\ UNCHANGED clock
           \/ /\ t.pc \in {"loaded", "raised"}
              /\ \E ok \in BOOLEAN :
                    IF ok /\ t.pc = "loaded"
                    THEN TipsDone(t, <<Bubble("advice", t.req)>>)
                    ELSE /\ clock' = Append(clock,
                                Scheduled("remove_last_message", t.req, FALSE))
                         /\ Finish(t)
              /\ UNCHANGED <<accepted, ran>>
    /\ UNCHANGED <<restVars, log, clientVars, uploads, logging_in_progress,
                   survey, chat_history, root, model>>

\* _handle_successful_log.tips, the thread: after the sleep it reads
\* chat_screen.daily_goal_macros (an AttributeError before the first load)
\* and calls handle_logged_meal, which asks for the model when it has a
\* request to generate; the except and finally clauses schedule the removal
\* of the placeholder and the reset of the flag on every path
tips_thread(t) ==
    /\ t.kind = "tips"
    /\ LET job == Val(t.job)
           goal == chat["main"].goal
       IN  \/ /\ t.pc = "sleep" /\ IsNone(goal)
              /\ TipsDone(t, << >>)
              /\ UNCHANGED <<accepted, ran>>
           \/ /\ t.pc = "sleep" /\ ~IsNone(goal)
              /\ accepted' = [accepted EXCEPT
                     !.log_meal[t.req].handle_logged_meal = @ + 1]
              /\ Ran({"handle_logged_meal"}, "thread")
              /\ IF handle_logged_meal(job.mt, job.nutrition, Val(goal),
                                       Some(job.energy), Some(job.hunger),
                                       FALSE, TRUE).requests = << >>
                 THEN TipsDone(t, <<Bubble("All nutrients within range.",
                                           t.req)>>)
                 ELSE /\ Advance(t, "load_model")
                      /\ UNCHANGED clock
           \/ /\ t.pc \in {"loaded", "raised"}
              /\ \E ok \in BOOLEAN :
                    TipsDone(t, IF ok /\ t.pc = "loaded"
                                THEN <<Bubble("advice", t.req)>> ELSE << >>)
              /\ UNCHANGED <<accepted, ran>>
    /\ UNCHANGED <<restVars, log, clientVars, uploads, logging_in_progress,
                   survey, chat_history, root, model>>

TipsThread == \E t \in threads : tips_thread(t)

\* The callbacks the clock may run next: the first one scheduled with no
\* delay, or the first one scheduled with a delay
Due == {i \in DOMAIN clock :
           \A j \in 1..(i - 1) : clock[j].delayed # clock[i].delayed}

\* The clock runs a callback on the interface thread
ClockTick ==
    \E i \in Due :
       LET c == clock[i]
           others == SubSeq(clock, 1, i - 1) \o SubSeq(clock, i + 1, Len(clock))
       IN  /\ clock' =
                 IF c.fn = "switch_to_main"
                 THEN others \o <<Scheduled("add_message", Bubble("welcome", 0),
                                            TRUE),
                                  Scheduled("load_macros", 0, TRUE)>>
                 ELSE others
           /\ root' = CASE c.fn = "switch_to_main" -> "chat"
                        [] c.fn = "go_back" -> "chat"
                        [] OTHER -> root
           /\ chat_history' =
                 CASE c.fn = "add_message" -> add_message(chat_history, c.arg)
                   [] c.fn = "remove_last_message" ->
                         remove_last_message(chat_history)
                   [] OTHER -> chat_history
           /\ logging_in_progress' =
                 IF c.fn = "setattr _logging_in_progress" THEN FALSE
                 ELSE logging_in_progress
           /\ threads' =
                 CASE c.fn = "init_app" ->
                         threads \cup {Thread("init", "init_firebase", 0, None)}
                   [] c.fn = "load_macros" ->
                         threads \cup {Thread("load", "load",
                                              accepted.load_macros + 1, None)}
                   [] OTHER -> threads
           /\ accepted' = IF c.fn = "load_macros"
                          THEN [accepted EXCEPT !.load_macros = @ + 1]
                          ELSE accepted
           /\ Ran({c.fn}, "clock")
    /\ UNCHANGED <<restVars, log, clientVars, uploads, survey, model>>

\* The chat screen: the start of the app, the chats and the analytics popup
NextThreads ==
    \/ ClockTick
    \/ InitThread
    \/ LoadModel
    \/ LoadThread
    \/ send_chat
    \/ ProcessChat
    \/ show_analytics_popup
    \/ fetch

SpecThreads == InitThreads /\ [][NextThreads]_vars

\* The logging screen: the start of the app and the logging of meals
NextLogging ==
    \/ ClockTick
    \/ InitThread
    \/ LoadModel
    \/ LoadThread
    \/ go_to_meal_logging
    \/ log_meal
    \/ select_energy
    \/ select_hunger
    \/ submit
    \/ PopupClosed
    \/ TipsThread

SpecLogging == InitThreads /\ [][NextLogging]_vars

\* The threads and the clock keep running
SpecLoggingFair ==
    SpecLogging /\ WF_vars(TipsThread) /\ WF_vars(LoadModel)
        /\ WF_vars(ClockTick)

----------------------------------------------------------------------------
(* Properties of the threads, under SpecThreads and SpecLogging *)

\* The calls that wait for the network or for the generator
NetworkOps ==
    {"upload_meal", "get_user_doc", "get_meal_doc", "load_weekly_analytics",
     "handle_logged_meal", "get_chat_response"}

\* The calls that change a displayed widget
WidgetOps ==
    {"add_message", "remove_last_message", "update_status", "switch_to_main",
     "go_back", "show_popup", "loading.open", "loading.dismiss",
     "AnalyticsPopup.open"}

\* C22: no network call (upload_meal, get_user_doc, get_meal_doc, advice or
\* chat generation) runs on the interface thread: every one runs on a
\* background thread.
C22_NetworkOffInterfaceThread ==
    \A c \in ran : c[1] \in NetworkOps => c[2] = "thread"

\* C23: every change to a displayed widget that results from a background
\* task is made on the interface thread through Clock.schedule_once, never
\* by the background thread itself.
C23_WidgetsChangedFromClock ==
    \A c \in ran : c[1] \in WidgetOps => c[2] # "thread"

\* C24: whatever the interleaving of the threads that call load_model, the
\* model and the processor are created at most once and every call returns
\* the same pair.
C24_ModelCreatedOnce ==
    /\ model.models_created <= 1
    /\ model.processors_created <= 1
    /\ Cardinality(model.returned) <= 1

\* Two chat threads hold the pair load_model returned to each of them
C24_Witness ==
    /\ model.models_created = 1 /\ Cardinality(model.returned) = 1
    /\ \E t1, t2 \in threads :
          /\ t1 # t2
          /\ t1.kind = "chat" /\ t1.pc = "loaded"
          /\ t2.kind = "chat" /\ t2.pc = "loaded"

\* C26: once every chat thread has finished and every scheduled callback
\* has run, the chat history holds no "Thinking..." placeholder and holds,
\* for every message sent, the response produced for it.
C26_PlaceholdersReplaced ==
    (threads = {} /\ clock = << >>) =>
        \A req \in 1..accepted.send_chat :
           /\ \A i \in DOMAIN chat_history :
                 chat_history[i] # Bubble("Thinking...", req)
           /\ \E i \in DOMAIN chat_history :
                 chat_history[i] \in
                    {Bubble("response", req),
                     Bubble("Sorry, I couldn't process that.", req)}

\* C28: per MealLoggingScreen, each accepted log_meal leads to at most one
\* upload_meal call and at most one handle_logged_meal call, a survey calls
\* back only with both levels selected, and while a log is in progress no
\* other is accepted, so that at most one tips thread runs.
C28_OneUploadOneAdvicePerLog ==
    /\ \A i \in DOMAIN accepted.log_meal :
          /\ accepted.log_meal[i].upload_meal <= 1
          /\ accepted.log_meal[i].handle_logged_meal
                <= accepted.log_meal[i].upload_meal
    /\ (survey # None /\ Val(survey)._submitted)
          => ~IsNone(Val(survey).energy) /\ ~IsNone(Val(survey).hunger)
    /\ Cardinality({t \in threads : t.kind = "tips"}) <= 1
    /\ \A i \in 1..(Len(accepted.log_meal) - 1) :
          accepted.log_meal[i].upload_meal = 1

\* A second log_meal was accepted after the first had its advice, and each
\* has uploaded once
C28_Witness ==
    /\ Len(accepted.log_meal) = 2
    /\ accepted.log_meal[1] = [upload_meal |-> 1, handle_logged_meal |-> 1]
    /\ accepted.log_meal[2].upload_meal = 1

\* The survey of the log_meal accepted last has been submitted
SurveySubmitted ==
    /\ accepted.log_meal # << >>
    /\ accepted.log_meal[Len(accepted.log_meal)].upload_meal > 0

\* C29: after an accepted log_meal whose survey is submitted,
\* _logging_in_progress eventually becomes False again, given that the
\* tips thread and the scheduled callbacks run: on upload failure, and
\* after the tips generation returns advice, returns nothing, or raises.
C29_FlagEventuallyReset ==
    (logging_in_progress /\ SurveySubmitted) ~> ~logging_in_progress

\* The flag was reset by the callback a tips thread scheduled
C29_Witness ==
    /\ ~logging_in_progress
    /\ accepted.log_meal # << >>
    /\ accepted.log_meal[1].upload_meal = 1
    /\ <<"setattr _logging_in_progress", "clock">> \in ran
    /\ \A t \in threads : t.kind # "tips"

====
